---- MODULE Spec2Model ----
(***************************************************************************)
(* DotGame (src/src/main.rs): the per-frame simulation engine.             *)
(*                                                                         *)
(* f32 values are modelled as fixed-point integers in units of 1/FP        *)
(* (1.0 is FP).  Products and quotients truncate toward zero.  The one     *)
(* non-finite value the engine can produce, NaN (the normalisation of a    *)
(* zero-length vector), is a distinguished value that every arithmetic     *)
(* operation propagates and every comparison rejects, as IEEE-754 does.    *)
(***************************************************************************)
EXTENDS Integers, Sequences, FiniteSets, TLC

VARIABLES
    dots,                 \* GameState.dots
    config,               \* GameState.config
    selected_type_index,  \* main's selected_type_index; GameState.selected_type is all_types[it]
    paused,               \* GameState.paused
    game_of_life_mode,    \* GameState.game_of_life_mode
    frame_count,          \* GameState.frame_count
    last                  \* history: the last operation, its result and the state it started from

vars == <<dots, config, selected_type_index, paused, game_of_life_mode, frame_count, last>>

(***************************************************************************)
(* Fixed-point arithmetic standing for f32.                                *)
(***************************************************************************)
FP == 100

NaN == 0 - 2^30

Abs(a) == IF a < 0 THEN 0 - a ELSE a

\* integer quotient truncated toward zero
Quot(a, b) ==
    IF (a >= 0) = (b > 0) THEN Abs(a) \div Abs(b) ELSE 0 - (Abs(a) \div Abs(b))

FAdd(a, b) == IF a = NaN \/ b = NaN THEN NaN ELSE a + b
FSub(a, b) == IF a = NaN \/ b = NaN THEN NaN ELSE a - b
FNeg(a) == IF a = NaN THEN NaN ELSE 0 - a
FMul(a, b) == IF a = NaN \/ b = NaN THEN NaN ELSE Quot(a * b, FP)
\* x / 0.0 is an infinity in f32; no division of the engine has a zero divisor
\* (mass is 1.0 or radius^2, distances are floored at 1.0), NaN stands for it.
FDiv(a, b) == IF a = NaN \/ b = NaN \/ b = 0 THEN NaN ELSE Quot(a * FP, b)
FLt(a, b) == a # NaN /\ b # NaN /\ a < b
FGt(a, b) == a # NaN /\ b # NaN /\ a > b
FLe(a, b) == a # NaN /\ b # NaN /\ a <= b
FGe(a, b) == a # NaN /\ b # NaN /\ a >= b
\* f32::max returns the other operand when one is NaN
FMax(a, b) == IF a = NaN THEN b ELSE IF b = NaN THEN a ELSE IF a >= b THEN a ELSE b
FMin(a, b) == IF a = NaN THEN b ELSE IF b = NaN THEN a ELSE IF a <= b THEN a ELSE b

RECURSIVE SqrtSearch(_, _, _)
SqrtSearch(n, lo, hi) ==
    IF lo >= hi THEN lo
    ELSE LET mid == (lo + hi + 1) \div 2
         IN  IF mid * mid <= n THEN SqrtSearch(n, mid, hi) ELSE SqrtSearch(n, lo, mid - 1)

\* floor of the square root
ISqrt(n) == SqrtSearch(n, 0, 46340)

(***************************************************************************)
(* Vec2                                                                    *)
(***************************************************************************)
vec2(x, y) == [x |-> x, y |-> y]
VAdd(a, b) == vec2(FAdd(a.x, b.x), FAdd(a.y, b.y))
VSub(a, b) == vec2(FSub(a.x, b.x), FSub(a.y, b.y))
VMul(a, s) == vec2(FMul(a.x, s), FMul(a.y, s))
VDiv(a, s) == vec2(FDiv(a.x, s), FDiv(a.y, s))
VDot(a, b) == FAdd(FMul(a.x, b.x), FMul(a.y, b.y))
VIsNaN(a) == a.x = NaN \/ a.y = NaN
\* sqrt(x*x + y*y), computed on the unscaled squares
VLength(a) == IF VIsNaN(a) THEN NaN ELSE ISqrt(a.x * a.x + a.y * a.y)
\* self * (1.0 / length): 0 * infinity is NaN for the zero vector
VNormalize(a) ==
    LET len == VLength(a)
    IN  IF len = NaN \/ len = 0 THEN vec2(NaN, NaN)
        ELSE vec2(Quot(a.x * FP, len), Quot(a.y * FP, len))
VDistance(a, b) == VLength(VSub(a, b))

(***************************************************************************)
(* Constants of the program, in fixed-point units.                         *)
(***************************************************************************)
SCREEN_WIDTH == 128000
SCREEN_HEIGHT == 72000
DOT_RADIUS == 500
INTERACTION_RADIUS == 5000
\* the capacity of the population: 1000 in the source, scaled down so that
\* the checked populations reach it
MAX_DOTS == 5
\* main calls game.update(1.0)
DT == 100

all_types ==
    << "Classic", "Predator", "Prey", "Absorber", "Transformer", "Repulsor", "Attractor",
       "Chaser", "Protector", "Ghost", "Bouncer", "Social", "Grower", "Divider" >>

DefaultConfig ==
    [ max_speed |-> 500,
      attraction_strength |-> 50,
      repulsion_strength |-> 200,
      friction |-> 98,
      bounce_damping |-> 80,
      interaction_radius |-> INTERACTION_RADIUS,
      eating_radius |-> 1500,
      growth_rate |-> 1,
      divide_size |-> 2000 ]

(***************************************************************************)
(* Dot                                                                     *)
(***************************************************************************)
Dot_new(x, y, dot_type) ==
    [ position |-> vec2(x, y),
      velocity |-> vec2(0, 0),
      acceleration |-> vec2(0, 0),
      dot_type |-> dot_type,
      radius |-> DOT_RADIUS,
      mass |-> FP,
      spin |-> 0,
      alive |-> TRUE,
      age |-> 0,
      energy |-> 100 * FP ]

\* Dot::random: the position and the velocity are the random draws
Dot_random(dot_type, pos, vel) ==
    [Dot_new(pos.x, pos.y, dot_type) EXCEPT !.velocity = vel]

apply_force(d, force) ==
    [d EXCEPT !.acceleration = VAdd(d.acceleration, VDiv(force, d.mass))]

distance_to(a, b) == VDistance(a.position, b.position)

can_eat(self, other) ==
    CASE self.dot_type = "Predator" ->
            /\ other.dot_type \in {"Prey", "Classic"}
            /\ FGe(self.radius, other.radius)
      [] self.dot_type = "Absorber" -> FGe(self.radius, FMul(other.radius, 90))
      [] OTHER -> FALSE

\* the four wall tests of Dot::update, in the source's order; w is
\* [position, velocity, spin]
BounceLeft(w, radius, cfg) ==
    IF FLt(w.position.x, radius)
    THEN LET vx == FMul(w.velocity.x, FNeg(cfg.bounce_damping))
         IN  [ position |-> vec2(radius, w.position.y),
               velocity |-> vec2(vx, w.velocity.y),
               spin |-> FMul(w.velocity.y, 10) ]
    ELSE w

BounceRight(w, radius, cfg) ==
    IF FGt(w.position.x, FSub(SCREEN_WIDTH, radius))
    THEN LET vx == FMul(w.velocity.x, FNeg(cfg.bounce_damping))
         IN  [ position |-> vec2(FSub(SCREEN_WIDTH, radius), w.position.y),
               velocity |-> vec2(vx, w.velocity.y),
               spin |-> FMul(FNeg(w.velocity.y), 10) ]
    ELSE w

BounceTop(w, radius, cfg) ==
    IF FLt(w.position.y, radius)
    THEN LET vy == FMul(w.velocity.y, FNeg(cfg.bounce_damping))
         IN  [ position |-> vec2(w.position.x, radius),
               velocity |-> vec2(w.velocity.x, vy),
               spin |-> FMul(FNeg(w.velocity.x), 10) ]
    ELSE w

BounceBottom(w, radius, cfg) ==
    IF FGt(w.position.y, FSub(SCREEN_HEIGHT, radius))
    THEN LET vy == FMul(w.velocity.y, FNeg(cfg.bounce_damping))
         IN  [ position |-> vec2(w.position.x, FSub(SCREEN_HEIGHT, radius)),
               velocity |-> vec2(w.velocity.x, vy),
               spin |-> FMul(w.velocity.x, 10) ]
    ELSE w

\* "Limit max speed"
LimitSpeed(v, cfg) ==
    IF FGt(VLength(v), cfg.max_speed) THEN VMul(VNormalize(v), cfg.max_speed) ELSE v

\* mutant: the drain is 0.2 per unit of dt
EnergyDrain_Double(dt) == FMul(20, dt)

\* the energy a live particle loses in one update
EnergyDrain(dt) == FMul(10, dt)

\* "Type-specific updates"
Grow(d, cfg, dt) ==
    IF d.dot_type = "Grower"
    THEN LET r == FAdd(d.radius, FMul(cfg.growth_rate, dt))
         IN  [d EXCEPT !.radius = r, !.mass = FMul(r, r)]
    ELSE d

\* Dot::update
Dot_update(d, cfg, dt) ==
    IF ~d.alive THEN d
    ELSE
        LET v1 == VAdd(d.velocity, VMul(d.acceleration, dt))
            v2 == VMul(v1, cfg.friction)
            v3 == LimitSpeed(v2, cfg)
            p1 == VAdd(d.position, VMul(v3, dt))
            w0 == [position |-> p1, velocity |-> v3, spin |-> d.spin]
            w4 == BounceBottom(BounceTop(BounceRight(BounceLeft(w0, d.radius, cfg),
                                                     d.radius, cfg), d.radius, cfg),
                               d.radius, cfg)
            e1 == FSub(d.energy, EnergyDrain(dt))
            g  == Grow([d EXCEPT !.position = w4.position,
                                 !.velocity = w4.velocity,
                                 !.spin = FMul(w4.spin, 95),
                                 !.acceleration = vec2(0, 0),
                                 !.age = FAdd(d.age, dt),
                                 !.energy = e1], cfg, dt)
        IN  IF FLe(g.energy, 0) THEN [g EXCEPT !.alive = FALSE] ELSE g

(***************************************************************************)
(* GameState::apply_interactions and apply_type_forces.                    *)
(* The sweep's working state st is [dots, forces, to_remove, to_add]: the  *)
(* population (the eater's energy, radius and mass are written in place),  *)
(* the force accumulator and the two intent lists.  rng holds the draws of *)
(* thread_rng() used in the tick: jitter, vel (offspring) and offset       *)
(* (life-rule births).                                                     *)
(***************************************************************************)
AddForce(forces, k, f) == [forces EXCEPT ![k] = VAdd(@, f)]
SubForce(forces, k, f) == [forces EXCEPT ![k] = VSub(@, f)]

\* direction * strength / distance.max(1.0)
Falloff(direction, strength, distance) ==
    VDiv(VMul(direction, strength), FMax(distance, FP))

\* the Protector arm: the scan of the whole population for Predators
ProtectorScan(ds, j, forces, cfg) ==
    [ k \in 1..Len(ds) |->
        IF /\ ds[k].dot_type = "Predator"
           /\ FLt(distance_to(ds[j], ds[k]), cfg.interaction_radius)
        THEN VSub(forces[k],
                  VMul(VMul(VNormalize(VSub(ds[k].position, ds[j].position)),
                            cfg.repulsion_strength), 2 * FP))
        ELSE forces[k] ]

\* the Divider arm's offspring
Offspring(d, rng) ==
    [ Dot_new(FAdd(d.position.x, rng.jitter.x), FAdd(d.position.y, rng.jitter.y), "Divider")
        EXCEPT !.velocity = rng.vel ]

\* first match: the forces of dot_i's type
TypeForcesOfI(st, i, j, distance, direction, cfg, fc, rng) ==
    LET ds == st.dots
        ti == ds[i].dot_type
        tj == ds[j].dot_type
        fs == st.forces
    IN  CASE ti = "Attractor" ->
                [st EXCEPT !.forces =
                    AddForce(fs, j, Falloff(direction, cfg.attraction_strength, distance))]
          [] ti = "Repulsor" ->
                [st EXCEPT !.forces =
                    SubForce(fs, j, Falloff(direction, cfg.repulsion_strength, distance))]
          [] ti = "Chaser" ->
                IF tj # ti
                THEN [st EXCEPT !.forces =
                        AddForce(fs, i, VDiv(VMul(VMul(direction, cfg.attraction_strength),
                                                  2 * FP), FMax(distance, FP)))]
                ELSE st
          [] ti = "Prey" ->
                IF tj = "Predator"
                THEN [st EXCEPT !.forces =
                        SubForce(fs, i, VDiv(VMul(VMul(direction, cfg.repulsion_strength),
                                                  3 * FP), FMax(distance, FP)))]
                ELSE st
          [] ti = "Social" ->
                IF tj = ti
                THEN [st EXCEPT !.forces =
                        AddForce(fs, i, VDiv(VMul(VMul(direction, cfg.attraction_strength),
                                                  150), FMax(distance, FP)))]
                ELSE st
          [] ti = "Protector" ->
                IF tj = ti /\ FLt(distance, FMul(cfg.interaction_radius, 70))
                THEN [st EXCEPT !.forces = ProtectorScan(ds, j, fs, cfg)]
                ELSE st
          [] ti = "Divider" ->
                IF FGt(ds[i].radius, cfg.divide_size) /\ fc % 120 = 0
                THEN [st EXCEPT !.to_add = Append(@, Offspring(ds[i], rng))]
                ELSE st
          [] ti = "Bouncer" ->
                IF FLt(distance, FMul(cfg.interaction_radius, 50))
                THEN LET force == VDiv(VMul(VMul(direction, cfg.repulsion_strength), 5 * FP),
                                       FMax(distance, FP))
                     IN  [st EXCEPT !.forces =
                            SubForce(AddForce(fs, j, force), i, VMul(force, 50))]
                ELSE st
          [] OTHER -> st

\* second match, "Symmetric forces": the forces of dot_j's type
TypeForcesOfJ(st, i, j, distance, direction, cfg) ==
    LET tj == st.dots[j].dot_type
    IN  CASE tj = "Attractor" ->
                [st EXCEPT !.forces =
                    SubForce(@, i, Falloff(direction, cfg.attraction_strength, distance))]
          [] tj = "Repulsor" ->
                [st EXCEPT !.forces =
                    AddForce(@, i, Falloff(direction, cfg.repulsion_strength, distance))]
          [] OTHER -> st

apply_type_forces(st, i, j, distance, direction, cfg, fc, rng) ==
    TypeForcesOfJ(TypeForcesOfI(st, i, j, distance, direction, cfg, fc, rng),
                  i, j, distance, direction, cfg)

\* eater eats eaten: the intent, the Absorber's growth, the energy
Eat(st, eater, eaten) ==
    LET ds == st.dots
        r  == FAdd(ds[eater].radius, FMul(ds[eaten].radius, 20))
        d1 == IF ds[eater].dot_type = "Absorber"
              THEN [ds[eater] EXCEPT !.radius = r, !.mass = FMul(r, r)]
              ELSE ds[eater]
        d2 == [d1 EXCEPT !.energy = FAdd(@, FMul(ds[eaten].energy, 50))]
    IN  [st EXCEPT !.to_remove = Append(@, eaten), !.dots = [ds EXCEPT ![eater] = d2]]

\* "Physical collision (unless ghost)"
Collide(st, i, j, distance, direction, min_distance, cfg) ==
    LET ds == st.dots
    IN  IF ds[i].dot_type # "Ghost" /\ ds[j].dot_type # "Ghost"
        THEN LET overlap == FSub(min_distance, distance)
                 separation == VMul(VMul(direction, overlap), 50)
                 relative_velocity == VSub(ds[i].velocity, ds[j].velocity)
                 impulse == VMul(VMul(direction, VDot(relative_velocity, direction)),
                                 cfg.bounce_damping)
                 f1 == AddForce(SubForce(st.forces, i, separation), j, separation)
                 f2 == AddForce(SubForce(f1, i, VMul(impulse, ds[j].mass)),
                                j, VMul(impulse, ds[i].mass))
             IN  [st EXCEPT !.forces = f2]
        ELSE st

\* mutant: the higher-index particle is tried first
EaterOf_HigherIndexFirst(di, dj, distance, cfg) ==
    IF can_eat(dj, di) /\ FLt(distance, cfg.eating_radius) THEN "j"
    ELSE IF can_eat(di, dj) /\ FLt(distance, cfg.eating_radius) THEN "i"
    ELSE "none"

\* mutant: only the lower-index particle is tried as the eater
EaterOf_LowerIndexOnly(di, dj, distance, cfg) ==
    IF can_eat(di, dj) /\ FLt(distance, cfg.eating_radius) THEN "i" ELSE "none"

\* which side of the pair eats, decided as the if / else-if chain decides it
EaterOf(di, dj, distance, cfg) ==
    IF can_eat(di, dj) /\ FLt(distance, cfg.eating_radius) THEN "i"
    ELSE IF can_eat(dj, di) /\ FLt(distance, cfg.eating_radius) THEN "j"
    ELSE "none"

\* the body of the inner loop for a pair of live particles
PairBody(st, i, j, cfg, fc, rng) ==
    LET di == st.dots[i]
        dj == st.dots[j]
        distance == distance_to(di, dj)
    IN  IF FGt(distance, cfg.interaction_radius) THEN st
        ELSE
            LET direction == VNormalize(VSub(dj.position, di.position))
                min_distance == FAdd(di.radius, dj.radius)
            IN  IF FLt(distance, min_distance) /\ FGt(distance, 10)
                THEN LET who == EaterOf(di, dj, distance, cfg)
                     IN  IF who = "i" THEN Eat(st, i, j)
                         ELSE IF who = "j" THEN Eat(st, j, i)
                         ELSE apply_type_forces(
                                 Collide(st, i, j, distance, direction, min_distance, cfg),
                                 i, j, distance, direction, cfg, fc, rng)
                ELSE apply_type_forces(st, i, j, distance, direction, cfg, fc, rng)

\* mutant: the loops visit dead particles too
SweepPair_NoAliveTest(st, i, j, cfg, fc, rng) == PairBody(st, i, j, cfg, fc, rng)

\* the two alive tests of the loops
SweepPair(st, i, j, cfg, fc, rng) ==
    IF ~st.dots[i].alive \/ ~st.dots[j].alive THEN st
    ELSE PairBody(st, i, j, cfg, fc, rng)

RECURSIVE PairsFrom(_, _, _)
PairsFrom(i, j, n) ==
    IF i > n THEN << >>
    ELSE IF j > n THEN PairsFrom(i + 1, i + 2, n)
    ELSE << <<i, j>> >> \o PairsFrom(i, j + 1, n)

\* the pairs in the order the two loops visit them
PairSeq(n) == PairsFrom(1, 2, n)

SweepStart(ds) ==
    [ dots |-> ds,
      forces |-> [k \in 1..Len(ds) |-> vec2(0, 0)],
      to_remove |-> << >>,
      to_add |-> << >> ]

\* the working state after the first k pairs
RECURSIVE SweepUpTo(_, _, _, _, _)
SweepUpTo(ds, k, cfg, fc, rng) ==
    IF k = 0 THEN SweepStart(ds)
    ELSE LET p == PairSeq(Len(ds))[k]
         IN  SweepPair(SweepUpTo(ds, k - 1, cfg, fc, rng), p[1], p[2], cfg, fc, rng)

Sweep(ds, cfg, fc, rng) == SweepUpTo(ds, Len(PairSeq(Len(ds))), cfg, fc, rng)

\* mutant: the collected forces are applied to dead particles too
ApplyForces_ToAll(st) ==
    [ k \in 1..Len(st.dots) |-> apply_force(st.dots[k], st.forces[k]) ]

\* "Apply collected forces"
ApplyForces(st) ==
    [ k \in 1..Len(st.dots) |->
        IF st.dots[k].alive THEN apply_force(st.dots[k], st.forces[k]) ELSE st.dots[k] ]

Range(f) == {f[k] : k \in DOMAIN f}

\* "Remove eaten dots": sort, dedup, flag
MarkRemoved(ds, to_remove) ==
    [ k \in 1..Len(ds) |-> IF k \in Range(to_remove) THEN [ds[k] EXCEPT !.alive = FALSE]
                           ELSE ds[k] ]

\* "Add new dots": each push is capacity-checked
RECURSIVE PushAll(_, _)
PushAll(ds, new) ==
    IF new = << >> THEN ds
    ELSE PushAll(IF Len(ds) < MAX_DOTS THEN Append(ds, Head(new)) ELSE ds, Tail(new))

\* dots.retain(|d| d.alive)
Retain(ds) == SelectSeq(ds, LAMBDA d : d.alive)

\* mutant: the dead particles are dropped in every tick
Compact_EveryTick(ds, fc) == Retain(ds)

\* "Clean up dead dots periodically"
Compact(ds, fc) == IF fc % 60 = 0 THEN Retain(ds) ELSE ds

apply_interactions(ds, cfg, fc, rng) ==
    LET st == Sweep(ds, cfg, fc, rng)
    IN  Compact(PushAll(MarkRemoved(ApplyForces(st), st.to_remove), st.to_add), fc)

(***************************************************************************)
(* GameState::apply_game_of_life_rules                                     *)
(***************************************************************************)
Qualifies(d) == d.alive /\ d.dot_type = "Classic"

\* "Count neighbors within interaction radius"
Neighbors(ds, i, cfg) ==
    Cardinality({ j \in 1..Len(ds) :
                    /\ i # j
                    /\ Qualifies(ds[j])
                    /\ FLt(distance_to(ds[i], ds[j]), cfg.interaction_radius) })

\* mutant: the birth is on two neighbours
LifeRule_BirthOnTwo(neighbors) ==
    IF neighbors < 2 \/ neighbors > 3 THEN "remove"
    ELSE IF neighbors = 2 THEN "add"
    ELSE "keep"

\* the overlay's decision for a neighbour count
LifeRule(neighbors) ==
    IF neighbors < 2 \/ neighbors > 3 THEN "remove"
    ELSE IF neighbors = 3 THEN "add"
    ELSE "keep"

LifeDecision(ds, i, cfg) ==
    IF Qualifies(ds[i]) THEN LifeRule(Neighbors(ds, i, cfg)) ELSE "skip"

\* the births, in index order
RECURSIVE LifeBirths(_, _, _, _)
LifeBirths(ds, i, cfg, rng) ==
    IF i > Len(ds) THEN << >>
    ELSE (IF LifeDecision(ds, i, cfg) = "add"
          THEN << Dot_new(FAdd(ds[i].position.x, rng.offset.x),
                          FAdd(ds[i].position.y, rng.offset.y), "Classic") >>
          ELSE << >>) \o LifeBirths(ds, i + 1, cfg, rng)

\* mutant: the decision for a particle reads the removals already decided for
\* the particles before it
apply_game_of_life_rules_ReadingRemovals(ds, cfg, rng) ==
    LET flagged == [ k \in 1..Len(ds) |->
                       IF LifeDecision(ds, k, cfg) = "remove"
                       THEN [ds[k] EXCEPT !.alive = FALSE] ELSE ds[k] ]
        seen(i) == [ k \in 1..Len(ds) |-> IF k < i THEN flagged[k] ELSE ds[k] ]
        out == [ k \in 1..Len(ds) |->
                   IF LifeDecision(seen(k), k, cfg) = "remove"
                   THEN [ds[k] EXCEPT !.alive = FALSE] ELSE ds[k] ]
    IN  PushAll(out, LifeBirths(ds, 1, cfg, rng))

apply_game_of_life_rules(ds, cfg, rng) ==
    LET flagged == [ k \in 1..Len(ds) |->
                       IF LifeDecision(ds, k, cfg) = "remove"
                       THEN [ds[k] EXCEPT !.alive = FALSE] ELSE ds[k] ]
    IN  PushAll(flagged, LifeBirths(ds, 1, cfg, rng))

(***************************************************************************)
(* GameState::update, on g = [dots, config, paused, game_of_life_mode,     *)
(* frame_count]                                                            *)
(***************************************************************************)
\* "Update each dot"
UpdateEach(ds, cfg, dt) == [k \in 1..Len(ds) |-> Dot_update(ds[k], cfg, dt)]

\* the population after the resolver and the integration of a running tick
Integrated(g, dt, rng) ==
    UpdateEach(apply_interactions(g.dots, g.config, g.frame_count + 1, rng), g.config, dt)

\* mutant: the period test is missing
OverlayRuns_EveryTick(g) == g.game_of_life_mode

OverlayRuns(g) == g.game_of_life_mode /\ (g.frame_count + 1) % 30 = 0

\* mutant: the paused test is missing
update_IgnoringPause(g, dt, rng) ==
    LET mid == Integrated(g, dt, rng)
    IN  [g EXCEPT !.frame_count = g.frame_count + 1,
                  !.dots = IF OverlayRuns(g)
                           THEN apply_game_of_life_rules(mid, g.config, rng)
                           ELSE mid]

update(g, dt, rng) ==
    IF g.paused THEN g
    ELSE LET mid == Integrated(g, dt, rng)
         IN  [g EXCEPT !.frame_count = g.frame_count + 1,
                       !.dots = IF OverlayRuns(g)
                                THEN apply_game_of_life_rules(mid, g.config, rng)
                                ELSE mid]

\* GameState::load_config on the content of the file, [kind, value]: "missing"
\* (read_to_string fails), "malformed" (from_str fails) or "valid" with the
\* configuration it holds
\* mutant: a file that does not parse resets the configuration to the defaults
load_config_ResettingOnError(cfg, content) ==
    IF content.kind = "missing" THEN [config |-> cfg, result |-> "Err"]
    ELSE IF content.kind = "malformed" THEN [config |-> DefaultConfig, result |-> "Err"]
    ELSE [config |-> content.value, result |-> "Ok"]

load_config(cfg, content) ==
    IF content.kind = "missing" THEN [config |-> cfg, result |-> "Err"]
    ELSE IF content.kind = "malformed" THEN [config |-> cfg, result |-> "Err"]
    ELSE [config |-> content.value, result |-> "Ok"]

(***************************************************************************)
(* The state and the operations.                                           *)
(***************************************************************************)
Game == [ dots |-> dots, config |-> config, paused |-> paused,
          game_of_life_mode |-> game_of_life_mode, frame_count |-> frame_count ]

selected_type == all_types[selected_type_index + 1]

NoRng == [jitter |-> vec2(0, 0), vel |-> vec2(0, 0), offset |-> vec2(0, 0)]

\* the history of an operation that the checked properties do not look back from
NoGame == [ dots |-> << >>, config |-> DefaultConfig, paused |-> FALSE,
            game_of_life_mode |-> FALSE, frame_count |-> 0 ]

\* the history keeps update and load_config with the state they started from;
\* every other operation is "input"
Did(op, arg, result, rng) ==
    last' = IF op \in {"update", "load_config"}
            THEN [op |-> op, arg |-> arg, result |-> result, rng |-> rng, pre |-> Game]
            ELSE [op |-> "input", arg |-> "-", result |-> "Ok", rng |-> NoRng, pre |-> NoGame]

\* GameState::add_dot at the mouse position
AddDot(pt) ==
    /\ dots' = IF Len(dots) < MAX_DOTS
               THEN Append(dots, Dot_new(pt.x, pt.y, selected_type)) ELSE dots
    /\ Did("add_dot", "-", "Ok", NoRng)
    /\ UNCHANGED <<config, selected_type_index, paused, game_of_life_mode, frame_count>>

\* Tab pressed k times
Tab(k) ==
    /\ selected_type_index' = (selected_type_index + k) % Len(all_types)
    /\ Did("tab", "-", "Ok", NoRng)
    /\ UNCHANGED <<dots, config, paused, game_of_life_mode, frame_count>>

\* GameState::seed_random(count, _): the k-th particle's type, position and velocity
\* are the draws draw.type, SeedPosition(k) and draw.vel
SeedPosition(k) == vec2(100 * FP + (k - 1) * 60 * FP, 300 * FP)

seed_random(count, gol, draw) ==
    LET types == IF gol THEN << "Classic" >> ELSE all_types
    IN  [ k \in 1..count |->
            Dot_random(types[(draw.type % Len(types)) + 1], SeedPosition(k), draw.vel) ]

SeedRandom(count, draw) ==
    /\ dots' = seed_random(count, game_of_life_mode, draw)
    /\ Did("seed_random", "-", "Ok", NoRng)
    /\ UNCHANGED <<config, selected_type_index, paused, game_of_life_mode, frame_count>>

\* key C
Clear ==
    /\ dots' = << >>
    /\ Did("clear", "-", "Ok", NoRng)
    /\ UNCHANGED <<config, selected_type_index, paused, game_of_life_mode, frame_count>>

\* key Space
TogglePause ==
    /\ paused' = ~paused
    /\ Did("toggle_pause", "-", "Ok", NoRng)
    /\ UNCHANGED <<dots, config, selected_type_index, game_of_life_mode, frame_count>>

\* key G
ToggleLife ==
    /\ game_of_life_mode' = ~game_of_life_mode
    /\ Did("toggle_life", "-", "Ok", NoRng)
    /\ UNCHANGED <<dots, config, selected_type_index, paused, frame_count>>

\* right mouse button: "Remove dots near mouse"
RemoveNear(pt) ==
    /\ dots' = [ k \in 1..Len(dots) |->
                   IF FLt(VDistance(dots[k].position, pt), 20 * FP)
                   THEN [dots[k] EXCEPT !.alive = FALSE] ELSE dots[k] ]
    /\ Did("remove_near", "-", "Ok", NoRng)
    /\ UNCHANGED <<config, selected_type_index, paused, game_of_life_mode, frame_count>>

\* keys 1 and 2
SpeedUp ==
    /\ config' = [config EXCEPT !.max_speed = FMin(FAdd(@, FP), 20 * FP)]
    /\ Did("speed_up", "-", "Ok", NoRng)
    /\ UNCHANGED <<dots, selected_type_index, paused, game_of_life_mode, frame_count>>

SpeedDown ==
    /\ config' = [config EXCEPT !.max_speed = FMax(FSub(@, FP), FP)]
    /\ Did("speed_down", "-", "Ok", NoRng)
    /\ UNCHANGED <<dots, selected_type_index, paused, game_of_life_mode, frame_count>>

\* key L (and main's first statement)
LoadConfig(content) ==
    /\ LET r == load_config(config, content)
       IN  config' = r.config /\ Did("load_config", content.kind, r.result, NoRng)
    /\ UNCHANGED <<dots, selected_type_index, paused, game_of_life_mode, frame_count>>

\* key S: GameState::save_config writes the file and changes no field
SaveConfig ==
    /\ Did("save_config", "-", "Ok", NoRng)
    /\ UNCHANGED <<dots, config, selected_type_index, paused, game_of_life_mode, frame_count>>

\* game.update(1.0)
Update(rng) ==
    /\ LET g == update(Game, DT, rng)
       IN  /\ dots' = g.dots
           /\ config' = g.config
           /\ paused' = g.paused
           /\ game_of_life_mode' = g.game_of_life_mode
           /\ frame_count' = g.frame_count
    /\ Did("update", "-", "Ok", rng)
    /\ UNCHANGED selected_type_index

(***************************************************************************)
(* Bounds and inputs.                                                      *)
(***************************************************************************)
\* running ticks per behaviour
MaxTicks == 2

\* a running tick is taken only within MaxTicks of one of the tick counters ms
\* (milestones: 1020 runs overlay and compaction, 1050 the overlay, 1080
\* overlay, compaction and division)
CanTick(ms) == paused \/ \E f \in ms : frame_count < f /\ frame_count >= f - MaxTicks

Pt(x, y) == vec2(x * FP, y * FP)

Rng1 == [jitter |-> vec2(300, -400), vel |-> vec2(100, 0), offset |-> vec2(1200, 0)]

\* The state after construction, then a cleared population and ticks up to
\* MaxTicks before a milestone.
InitAt(ms) ==
    /\ dots = << >>
    /\ config = DefaultConfig
    /\ selected_type_index = 0
    /\ paused = FALSE
    /\ game_of_life_mode = FALSE
    /\ frame_count \in {f - MaxTicks : f \in ms}
    /\ last = [op |-> "input", arg |-> "-", result |-> "Ok", rng |-> NoRng, pre |-> NoGame]

\* Tab presses that end on a type of the palette pal
TabTo(pal) ==
    \E k \in 1..(Len(all_types) - 1) :
        /\ all_types[((selected_type_index + k) % Len(all_types)) + 1] \in pal
        /\ Tab(k)

\* a configuration file that differs from the defaults
AltConfig == [DefaultConfig EXCEPT !.bounce_damping = 150, !.divide_size = 400]

FileContents ==
    { [kind |-> "missing", value |-> DefaultConfig],
      [kind |-> "malformed", value |-> DefaultConfig],
      [kind |-> "valid", value |-> AltConfig] }

(***************************************************************************)
(* Spec: placement, seeding, clearing, pause and ticks.                    *)
(***************************************************************************)
PalMain == {"Classic", "Grower"}
PtsMain == {Pt(100, 100)}
SeedCounts == {2, MAX_DOTS + 1}
SeedDraws == { [type |-> 0, vel |-> vec2(100, -50)], [type |-> 12, vel |-> vec2(100, -50)] }

Init == InitAt({1020})

Next ==
    \/ \E pt \in PtsMain : AddDot(pt)
    \/ TabTo(PalMain)
    \/ \E n \in SeedCounts, draw \in SeedDraws : SeedRandom(n, draw)
    \/ Clear
    \/ TogglePause
    \/ CanTick({1020}) /\ Update(Rng1)

Spec == Init /\ [][Next]_vars

(***************************************************************************)
(* SpecConfig: the configuration file and the speed keys.                  *)
(***************************************************************************)
MaxPlaced == 2

\* two overlapping placements next to the left wall
PtsWall == {Pt(4, 100), Pt(6, 100)}

NextConfig ==
    \/ \E content \in FileContents : LoadConfig(content)
    \/ SaveConfig
    \/ SpeedUp
    \/ SpeedDown
    \/ \E pt \in PtsWall : Len(dots) < MaxPlaced /\ AddDot(pt)
    \/ CanTick({1020}) /\ Update(Rng1)

SpecConfig == Init /\ [][NextConfig]_vars

(***************************************************************************)
(* SpecForce: Attractors, Repulsors and Classic particles, in range of each *)
(* other without overlapping.                                              *)
(***************************************************************************)
PalForce == {"Classic", "Repulsor", "Attractor"}
PtsForce == {Pt(100, 100), Pt(110, 100)}

NextForce ==
    \/ \E pt \in PtsForce : Len(dots) < MaxPlaced /\ AddDot(pt)
    \/ TabTo(PalForce)
    \/ Clear
    \/ CanTick({1020}) /\ Update(Rng1)

SpecForce == Init /\ [][NextForce]_vars

(***************************************************************************)
(* SpecEat: Predators, Prey and Absorbers placed on overlapping positions. *)
(***************************************************************************)
MaxEaten == 3

PalEat == {"Predator", "Prey", "Absorber"}
PtsEat == {Pt(100, 100), Pt(106, 100)}

NextEat ==
    \/ \E pt \in PtsEat : Len(dots) < MaxEaten /\ AddDot(pt)
    \/ TabTo(PalEat)
    \/ CanTick({1020}) /\ Update(Rng1)

SpecEat == Init /\ [][NextEat]_vars

(***************************************************************************)
(* Dead particles that are still in the population: placements on two      *)
(* points of one line, the right mouse button at (85, 100), which reaches  *)
(* the particles at (100, 100) only, and the ticks up to the overlay of     *)
(* tick 1050, which does not compact.                                      *)
(***************************************************************************)
MaxPresent == 3

PalDead == {"Classic", "Predator", "Protector"}
PtsDead == {Pt(100, 100), Pt(106, 100)}

NextDead ==
    \/ \E pt \in PtsDead : Len(dots) < MaxPresent /\ AddDot(pt)
    \/ TabTo(PalDead)
    \/ RemoveNear(Pt(85, 100))
    \/ ToggleLife
    \/ CanTick({1050}) /\ Update(Rng1)

SpecDead == InitAt({1050}) /\ [][NextDead]_vars

(***************************************************************************)
(* The life-rule overlay on Classic particles: five points, none within a  *)
(* diameter of another, each taken at most once, with every neighbour      *)
(* count from 0 to 4 among their subsets.                                  *)
(***************************************************************************)
PtsLife == {Pt(100, 100), Pt(145, 100), Pt(100, 145), Pt(100, 55), Pt(130, 130)}

Free(pt) == \A k \in 1..Len(dots) : dots[k].position # pt

NextLife ==
    \/ \E pt \in PtsLife : Free(pt) /\ selected_type = "Classic" /\ AddDot(pt)
    \/ ToggleLife
    \/ CanTick({1050}) /\ Update(Rng1)

SpecLife == InitAt({1050}) /\ [][NextLife]_vars

(***************************************************************************)
(* The overlay in a tick that also compacts: Classics and Predators on the *)
(* four points of a star (the centre within interaction_radius of each     *)
(* arm, the arms out of each other's range), each point taken at most      *)
(* once, the keys G and Space, and the ticks up to tick 1020.              *)
(***************************************************************************)
PalOverlay == {"Classic", "Predator"}
PtsOverlay == {Pt(100, 100), Pt(145, 100), Pt(100, 145), Pt(100, 55)}

NextOverlay ==
    \/ \E pt \in PtsOverlay : Free(pt) /\ AddDot(pt)
    \/ TabTo(PalOverlay)
    \/ ToggleLife
    \/ TogglePause
    \/ CanTick({1020}) /\ Update(Rng1)

SpecOverlay == InitAt({1020}) /\ [][NextOverlay]_vars

(***************************************************************************)
(* Division: a configuration file with divide_size below the radius of a   *)
(* new particle, Classics and Dividers on two points in range of each      *)
(* other, and the ticks up to tick 1080, a multiple of 120.                *)
(***************************************************************************)
PalDivide == {"Classic", "Divider"}
PtsDivide == {Pt(100, 100), Pt(110, 100)}

NextDivide ==
    \/ LoadConfig([kind |-> "valid", value |-> AltConfig])
    \/ \E pt \in PtsDivide : Len(dots) < MaxPresent /\ AddDot(pt)
    \/ TabTo(PalDivide)
    \/ CanTick({1080}) /\ Update(Rng1)

SpecDivide == InitAt({1080}) /\ [][NextDivide]_vars

(***************************************************************************)
(* Properties.                                                             *)
(***************************************************************************)
Ticked == last.op = "update" /\ ~last.pre.paused
pre == last.pre

\* C1: the population never holds more than MAX_DOTS particles, whatever
\* sequence of add_dot, seed_random(count), clear and ticks produced it.
C1_CapacityNeverExceeded == Len(dots) <= MAX_DOTS

GrowingTypes == {"Grower", "Absorber"}

\* C9: every Grower and Absorber has mass = radius^2 in every reachable state
\* (also right after creation); every other particle keeps the mass it was
\* created with.
C9_MassIsRadiusSquared ==
    \A k \in 1..Len(dots) :
        IF dots[k].dot_type \in GrowingTypes
        THEN dots[k].mass = FMul(dots[k].radius, dots[k].radius)
        ELSE dots[k].mass = FP

\* C10: an update while paused changes neither the tick counter, the population
\* nor the configuration, and no update changes the paused flag.
C10_PausedUpdateIsNoOp ==
    last.op = "update" =>
        /\ paused = pre.paused
        /\ pre.paused =>
              /\ frame_count = pre.frame_count
              /\ dots = pre.dots
              /\ config = pre.config
              /\ game_of_life_mode = pre.game_of_life_mode

\* a paused update of a population that a running tick would have moved
C10_Witness ==
    /\ last.op = "update"
    /\ pre.paused
    /\ Len(pre.dots) >= 2
    /\ \E k \in 1..Len(pre.dots) : pre.dots[k].velocity # vec2(0, 0)

\* C7: a load_config that fails (the file is missing or malformed) returns an
\* error and leaves the configuration, and every other field, as it was.
C7_FailedLoadKeepsConfig ==
    (last.op = "load_config" /\ last.arg # "valid") =>
        /\ last.result = "Err"
        /\ config = pre.config
        /\ Game = pre

\* a failed load over a configuration that is not the default one
C7_Witness ==
    /\ last.op = "load_config"
    /\ last.arg = "malformed"
    /\ last.result = "Err"
    /\ config # DefaultConfig

\* C8: after an update every live particle's speed is at most config.max_speed,
\* whatever the configuration (a loaded bounce_damping included) and whichever
\* walls it was reflected off.
C8_SpeedWithinMax ==
    Ticked =>
        \A k \in 1..Len(dots) :
            dots[k].alive => FLe(VLength(dots[k].velocity), config.max_speed)

\* the same, for bounce_damping at most 1.0 only
C8_SpeedWithinMaxWhenDamped ==
    (Ticked /\ config.bounce_damping <= FP) =>
        \A k \in 1..Len(dots) :
            dots[k].alive => FLe(VLength(dots[k].velocity), config.max_speed)

(***************************************************************************)
(* The sweep of the tick that led to the current state, replayed from the  *)
(* recorded start state.                                                   *)
(***************************************************************************)
PrePairs == PairSeq(Len(pre.dots))
\* the working state before (k - 1) and after (k) the k-th pair
PreSweepAt(k) == SweepUpTo(pre.dots, k, pre.config, pre.frame_count + 1, last.rng)
PreSweep == Sweep(pre.dots, pre.config, pre.frame_count + 1, last.rng)

\* the working states of the sweep in order: entry k + 1 is the state after
\* the first k pairs
RECURSIVE TraceFrom(_, _)
TraceFrom(acc, k) ==
    IF k > Len(PrePairs) THEN acc
    ELSE TraceFrom(Append(acc, SweepPair(acc[Len(acc)], PrePairs[k][1], PrePairs[k][2],
                                         pre.config, pre.frame_count + 1, last.rng)),
                   k + 1)
PreTrace == TraceFrom(<< SweepStart(pre.dots) >>, 1)

\* the pair is visited by the loops and passes the range test
InRange(st, i, j) ==
    /\ st.dots[i].alive
    /\ st.dots[j].alive
    /\ FLe(distance_to(st.dots[i], st.dots[j]), pre.config.interaction_radius)

Overlapping(st, i, j) ==
    FLt(distance_to(st.dots[i], st.dots[j]), FAdd(st.dots[i].radius, st.dots[j].radius))

\* what the k-th pair added to the force on particle o
ForceDelta(k, o) == VSub(PreSweepAt(k).forces[o], PreSweepAt(k - 1).forces[o])

\* the vector from particle o to particle a
Toward(st, o, a) == VSub(st.dots[a].position, st.dots[o].position)

\* the types whose own arm adds a force to their own accumulator
SelfForceTypes == {"Chaser", "Prey", "Social", "Bouncer"}

\* C3 (general part): for every visited pair of a live Attractor a and another
\* live particle o in range and not overlapping, the force the pair adds to o
\* points toward a, whichever of the two has the lower index.  (The lower-index
\* particle is taken among the types that add no force of their own to it.)
C3_AttractorForceTowardIt ==
    Ticked =>
        \A k \in 1..Len(PrePairs) :
            LET st == PreSweepAt(k - 1)
                i == PrePairs[k][1]
                j == PrePairs[k][2]
            IN  \A a \in {i, j} :
                    LET o == IF a = i THEN j ELSE i
                    IN  ( /\ InRange(st, i, j)
                          /\ ~Overlapping(st, i, j)
                          /\ st.dots[a].dot_type = "Attractor"
                          /\ st.dots[i].dot_type \notin SelfForceTypes )
                        => FGt(VDot(ForceDelta(k, o), Toward(st, o, a)), 0)

\* C3 (scenario): an Attractor added first at (100,100) and a Classic added
\* second at (110,100): after one tick the Classic's position.x has decreased.
C3_ScenarioClassicPulled ==
    ( /\ Ticked
      /\ pre.dots = << Dot_new(100 * FP, 100 * FP, "Attractor"),
                       Dot_new(110 * FP, 100 * FP, "Classic") >> )
    => dots[2].position.x < pre.dots[2].position.x

\* C3: the Attractor's force on the other particle of a pair in range points
\* toward the Attractor, in either index order, and in the scenario the Classic
\* moves toward the Attractor.
C3_AttractorPulls == C3_AttractorForceTowardIt /\ C3_ScenarioClassicPulled

\* the particles marked for removal by the sweep
PreRemoved == Range(PreSweep.to_remove)

\* where particle i of the start population is after the tick, removed being
\* the particles the sweep marked: compaction (a tick counter that is a
\* multiple of 60) drops the dead particles before it
PostIndex(i, removed) ==
    IF (pre.frame_count + 1) % 60 = 0
    THEN Cardinality({ k \in 1..i : pre.dots[k].alive /\ k \notin removed })
    ELSE i

\* C4: when a visited pair overlaps (0.1 < distance < sum of radii) within
\* eating_radius and interaction_radius and exactly one side qualifies under
\* can_eat, the other side is marked dead by the pass and the qualifying side
\* gains half the energy the eaten particle has at that moment, in either
\* index order.
C4_SoleQualifierEats ==
    Ticked =>
      LET tr == PreTrace
          removed == Range(tr[Len(tr)].to_remove)
      IN
        \A k \in 1..Len(PrePairs) :
            LET st == tr[k]
                i == PrePairs[k][1]
                j == PrePairs[k][2]
                d == distance_to(st.dots[i], st.dots[j])
            IN  \A eater \in {i, j} :
                    LET eaten == IF eater = i THEN j ELSE i
                    IN  ( /\ InRange(st, i, j)
                          /\ Overlapping(st, i, j)
                          /\ FGt(d, 10)
                          /\ FLt(d, pre.config.eating_radius)
                          /\ can_eat(st.dots[eater], st.dots[eaten])
                          /\ ~can_eat(st.dots[eaten], st.dots[eater]) )
                        =>
                        /\ eaten \in removed
                        /\ tr[k + 1].dots[eater].energy
                             = st.dots[eater].energy + Quot(st.dots[eaten].energy, 2)
                        /\ (pre.frame_count + 1) % 60 # 0 => ~dots[eaten].alive

\* a tick in which a higher-index Predator ate a lower-index Prey
C4_Witness ==
    /\ Ticked
    /\ Len(pre.dots) >= 2
    /\ pre.dots[1].dot_type = "Prey"
    /\ pre.dots[1].alive
    /\ pre.dots[2].dot_type = "Predator"
    /\ 1 \in PreRemoved
    /\ PreSweep.dots[2].energy > pre.dots[2].energy
    /\ ~dots[1].alive

\* the particles that ate in the sweep tr: the other particle of a pair whose
\* visit appended to to_remove
EatersIn(tr) ==
    { e \in 1..Len(pre.dots) :
        \E k \in 1..Len(PrePairs) :
            /\ Len(tr[k + 1].to_remove) > Len(tr[k].to_remove)
            /\ e \in {PrePairs[k][1], PrePairs[k][2]}
            /\ e # tr[k + 1].to_remove[Len(tr[k + 1].to_remove)] }

\* C6: a particle that is alive over the whole running tick and eats nothing in
\* it ends the tick with its energy lowered by exactly 0.1 * dt, and no particle
\* that is not an eater ends a tick with more energy than it started with.
C6_EnergyDrain ==
    Ticked =>
        LET tr == PreTrace
            removed == Range(tr[Len(tr)].to_remove)
            eaters == EatersIn(tr)
            kept == (pre.frame_count + 1) % 60 # 0
        IN  \A i \in 1..Len(pre.dots) :
                i \notin eaters =>
                    LET p == PostIndex(i, removed)
                    IN  /\ (pre.dots[i].alive /\ i \notin removed /\ dots[p].alive)
                              => dots[p].energy = pre.dots[i].energy - Quot(10 * DT, FP)
                        /\ (pre.dots[i].alive /\ i \notin removed)
                              => dots[p].energy <= pre.dots[i].energy
                        /\ ((~pre.dots[i].alive \/ i \in removed) /\ kept)
                              => dots[i].energy <= pre.dots[i].energy

\* a tick with an eater and a particle that lived through it without eating
C6_Witness ==
    /\ Ticked
    /\ LET tr == PreTrace
           removed == Range(tr[Len(tr)].to_remove)
           eaters == EatersIn(tr)
       IN  /\ eaters # {}
           /\ \E i \in 1..Len(pre.dots) :
                 /\ i \notin eaters
                 /\ pre.dots[i].alive
                 /\ i \notin removed
                 /\ dots[PostIndex(i, removed)].alive
                 /\ dots[PostIndex(i, removed)].energy < pre.dots[i].energy

\* the particles of ds other than those at the indexes of the particles that
\* were dead when the tick started
RECURSIVE StripFrom(_, _)
StripFrom(ds, k) ==
    IF k > Len(ds) THEN << >>
    ELSE (IF k <= Len(pre.dots) /\ ~pre.dots[k].alive THEN << >> ELSE << ds[k] >>)
         \o StripFrom(ds, k + 1)

IsPrefix(s, t) == Len(s) <= Len(t) /\ SubSeq(t, 1, Len(s)) = s

\* C2: a particle that is dead when a running tick starts is the same record
\* after it (no force applied, not integrated), and the live particles end the
\* tick, overlay included, exactly as they do when the dead particles are not
\* in the population at all (no force from them, no neighbour counted).
C2_DeadParticlesInert ==
    Ticked =>
        LET compacted == (pre.frame_count + 1) % 60 = 0
            without == update([pre EXCEPT !.dots = Retain(pre.dots)], DT, last.rng).dots
        IN  /\ IsPrefix(IF compacted THEN dots ELSE StripFrom(dots, 1), without)
            /\ ~compacted =>
                 \A i \in 1..Len(pre.dots) :
                     ~pre.dots[i].alive => dots[i] = pre.dots[i]

\* an overlay tick that started with a dead Classic within interaction_radius
\* of a live Classic, and a dead particle overlapping a live one
C2_Witness ==
    /\ Ticked
    /\ OverlayRuns(pre)
    /\ Len(dots) = Len(pre.dots)
    /\ \E i, j \in 1..Len(pre.dots) :
          /\ ~pre.dots[i].alive
          /\ pre.dots[j].alive
          /\ pre.dots[i].dot_type = "Classic"
          /\ pre.dots[j].dot_type = "Classic"
          /\ pre.dots[i].position # pre.dots[j].position
          /\ Overlapping([dots |-> pre.dots], i, j)
          /\ dots[i] = pre.dots[i]

\* the population the overlay of the tick started from
PreMid == Integrated(pre, DT, last.rng)

\* the live Classic particles of ds other than i that are nearer to particle i
\* than interaction_radius
LiveClassicNear(ds, i) ==
    { j \in 1..Len(ds) :
        /\ j # i
        /\ ds[j].alive
        /\ ds[j].dot_type = "Classic"
        /\ FLt(VDistance(ds[i].position, ds[j].position), pre.config.interaction_radius) }

\* the live Classic particles of ds with exactly three such neighbours
Parents(ds) ==
    { i \in 1..Len(ds) :
        ds[i].alive /\ ds[i].dot_type = "Classic" /\ Cardinality(LiveClassicNear(ds, i)) = 3 }

\* C5: in an overlay pass a live Classic with 2 or 3 live Classic neighbours
\* stays alive, one with fewer than 2 or more than 3 is marked dead, and each
\* one with exactly 3 adds one new Classic at its position plus the offset, as
\* long as the population is below capacity.
C5_LifeRule ==
    (Ticked /\ OverlayRuns(pre)) =>
        LET mid == PreMid
            parents == Parents(mid)
            born == Len(dots) - Len(mid)
        IN  /\ \A i \in 1..Len(mid) :
                 (mid[i].alive /\ mid[i].dot_type = "Classic") =>
                     LET n == Cardinality(LiveClassicNear(mid, i))
                     IN  /\ n \in {2, 3} => dots[i].alive
                         /\ (n < 2 \/ n > 3) => ~dots[i].alive
            /\ born = (IF Len(mid) + Cardinality(parents) <= MAX_DOTS
                       THEN Cardinality(parents) ELSE MAX_DOTS - Len(mid))
            /\ \A b \in 1..born :
                 \E i \in parents :
                     /\ Cardinality({ k \in parents : k < i }) = b - 1
                     /\ dots[Len(mid) + b].dot_type = "Classic"
                     /\ dots[Len(mid) + b].alive
                     /\ dots[Len(mid) + b].position
                          = VAdd(mid[i].position, last.rng.offset)

\* an overlay pass with a survivor on 3 neighbours, a particle marked dead and
\* a birth
C5_Witness ==
    /\ Ticked
    /\ OverlayRuns(pre)
    /\ Len(dots) = Len(PreMid) + 1
    /\ \E i, k \in 1..Len(PreMid) :
          /\ i \in Parents(PreMid)
          /\ dots[i].alive
          /\ PreMid[k].alive
          /\ PreMid[k].dot_type = "Classic"
          /\ Cardinality(LiveClassicNear(PreMid, k)) < 2
          /\ ~dots[k].alive

\* C11: when a running tick whose counter is a multiple of 60 completes, the
\* population holds no particle with alive = FALSE (compaction is the last
\* step of the tick, after the integration and the overlay).
C11_CompactingTickLeavesNoDead ==
    (Ticked /\ (pre.frame_count + 1) % 60 = 0) =>
        \A k \in 1..Len(dots) : dots[k].alive

\* C16: the overlay runs in a tick only if the simulation is running, the
\* life-rule mode is on and the tick counter is a multiple of 30; when it runs
\* it only flips the alive flag of Classic particles and only appends Classic
\* particles, and every particle of another type is as the integration left it.
C16_OverlayOnlyOnLifeTicks ==
    (last.op = "update") =>
        /\ pre.paused => dots = pre.dots
        /\ ~pre.paused =>
             LET mid == PreMid
                 runs == pre.game_of_life_mode /\ (pre.frame_count + 1) % 30 = 0
             IN  /\ ~runs => dots = mid
                 /\ Len(dots) >= Len(mid)
                 /\ \A i \in 1..Len(mid) :
                      /\ mid[i].dot_type # "Classic" => dots[i] = mid[i]
                      /\ dots[i] # mid[i] => dots[i] = [mid[i] EXCEPT !.alive = FALSE]
                 /\ \A i \in (Len(mid) + 1)..Len(dots) : dots[i].dot_type = "Classic"

\* an overlay pass that marked a Classic dead next to a live Predator
C16_Witness ==
    /\ Ticked
    /\ pre.game_of_life_mode
    /\ (pre.frame_count + 1) % 30 = 0
    /\ \E i, k \in 1..Len(PreMid) :
          /\ PreMid[i].dot_type = "Classic"
          /\ PreMid[i].alive
          /\ ~dots[i].alive
          /\ PreMid[k].dot_type = "Predator"
          /\ dots[k].alive
          /\ FLt(VDistance(PreMid[i].position, PreMid[k].position),
                 pre.config.interaction_radius)

\* no undefined value in the particle's motion fields
Finite(d) == ~VIsNaN(d.position) /\ ~VIsNaN(d.velocity) /\ ~VIsNaN(d.acceleration)

\* two live particles of ds are at the same position
Coincident(ds) ==
    \E i, j \in 1..Len(ds) :
        i < j /\ ds[i].alive /\ ds[j].alive /\ ds[i].position = ds[j].position

\* C12: a running tick that starts with two live particles at the same
\* position, of any types, and no undefined value in any particle, leaves no
\* undefined value in any particle's acceleration, velocity or position.
C12_CoincidentPairStaysFinite ==
    ( /\ Ticked
      /\ Coincident(pre.dots)
      /\ \A k \in 1..Len(pre.dots) : Finite(pre.dots[k]) )
    => \A k \in 1..Len(dots) : Finite(dots[k])

\* both particles of the k-th pair, as the sweep tr finds them, qualify to eat
\* each other: live, overlapping (0.1 < distance < sum of radii), in
\* eating_radius and interaction_radius
MutualEaters(tr, k) ==
    LET st == tr[k]
        i == PrePairs[k][1]
        j == PrePairs[k][2]
        d == distance_to(st.dots[i], st.dots[j])
    IN  /\ InRange(st, i, j)
        /\ Overlapping(st, i, j)
        /\ FGt(d, 10)
        /\ FLt(d, pre.config.eating_radius)
        /\ can_eat(st.dots[i], st.dots[j])
        /\ can_eat(st.dots[j], st.dots[i])

\* C13: when both particles of a visited overlapping live pair within
\* eating_radius qualify to eat each other, the lower-index one is the eater:
\* the higher-index one is the one marked, only the lower-index one gains energy
\* (an Absorber also radius), and the higher-index one is left as it was.
C13_LowerIndexWinsMutualEating ==
    Ticked =>
        LET tr == PreTrace
        IN  \A k \in 1..Len(PrePairs) :
                LET st == tr[k]
                    i == PrePairs[k][1]
                    j == PrePairs[k][2]
                IN  MutualEaters(tr, k) =>
                        /\ tr[k + 1].to_remove = Append(st.to_remove, j)
                        /\ tr[k + 1].dots[j] = st.dots[j]
                        /\ tr[k + 1].dots[i].energy
                             = st.dots[i].energy + Quot(st.dots[j].energy, 2)
                        /\ st.dots[i].dot_type = "Absorber" =>
                             tr[k + 1].dots[i].radius > st.dots[i].radius
                        /\ (pre.frame_count + 1) % 60 # 0 => ~dots[j].alive

\* a tick in which the first of two Absorbers ate the second
C13_Witness ==
    /\ Ticked
    /\ Len(pre.dots) = 2
    /\ pre.dots[1].dot_type = "Absorber"
    /\ pre.dots[2].dot_type = "Absorber"
    /\ MutualEaters(PreTrace, 1)
    /\ (pre.frame_count + 1) % 60 # 0
    /\ dots[1].alive
    /\ ~dots[2].alive
    /\ dots[1].radius > pre.dots[1].radius

\* C14: during the pairwise sweep no particle field is modified: before and
\* after every pair visit the particles are as they were when the sweep
\* started, so every pair check reads the pre-sweep state.
C14_SweepReadsPreSweepState ==
    Ticked =>
        LET tr == PreTrace
        IN  \A k \in 1..Len(tr) : tr[k].dots = pre.dots

\* C15: in an overlay pass every decision is made from the population as it
\* was when the pass started: a particle is alive after the pass exactly when
\* it was alive at the start and, if a Classic, had 2 or 3 neighbours in the
\* start population, whatever the pass decided for the particles before it; the
\* births are counted on the start population too.
C15_OverlayDecidesOnSnapshot ==
    (Ticked /\ OverlayRuns(pre)) =>
        LET mid == PreMid
        IN  /\ \A i \in 1..Len(mid) :
                 dots[i].alive <=>
                     /\ mid[i].alive
                     /\ mid[i].dot_type = "Classic"
                          => Cardinality(LiveClassicNear(mid, i)) \in {2, 3}
            /\ Len(dots) >= Len(mid)
            /\ Len(dots) < MAX_DOTS => Len(dots) = Len(mid) + Cardinality(Parents(mid))

\* an overlay pass in which a particle survived on 2 neighbours, one of them
\* an earlier particle that the same pass marked dead
C15_Witness ==
    /\ Ticked
    /\ OverlayRuns(pre)
    /\ \E i \in 1..Len(PreMid) :
          /\ PreMid[i].alive
          /\ Cardinality(LiveClassicNear(PreMid, i)) = 2
          /\ dots[i].alive
          /\ \E j \in LiveClassicNear(PreMid, i) : j < i /\ ~dots[j].alive

\* particle d is a Divider that is due to divide
Dividing(d) == d.dot_type = "Divider" /\ FGt(d.radius, pre.config.divide_size)

\* C17: on a tick whose counter is a multiple of 120, the visit of an in-range
\* live pair adds one offspring for each particle of the pair that is a Divider
\* with a radius above divide_size, at the lower or at the higher index.
C17_DividerSpawnsInEitherRole ==
    (Ticked /\ (pre.frame_count + 1) % 120 = 0) =>
        LET tr == PreTrace
        IN  \A k \in 1..Len(PrePairs) :
                LET st == tr[k]
                    i == PrePairs[k][1]
                    j == PrePairs[k][2]
                IN  InRange(st, i, j) =>
                        Len(tr[k + 1].to_add) - Len(st.to_add)
                          = Cardinality({ d \in {i, j} : Dividing(st.dots[d]) })

\* C18: when the visited pair is a live Protector and a live same-type
\* particle (the protected one, at the higher index) within 70% of
\* interaction_radius, the force the visit adds to every live Predator within
\* interaction_radius of the protected particle points away from the protected
\* particle.
C18_ProtectorPushesPredatorsAway ==
    Ticked =>
        LET tr == PreTrace
        IN  \A k \in 1..Len(PrePairs) :
                LET st == tr[k]
                    i == PrePairs[k][1]
                    j == PrePairs[k][2]
                IN  ( /\ InRange(st, i, j)
                      /\ st.dots[i].dot_type = "Protector"
                      /\ st.dots[j].dot_type = "Protector"
                      /\ FLt(distance_to(st.dots[i], st.dots[j]),
                             FMul(pre.config.interaction_radius, 70)) )
                    => \A p \in 1..Len(st.dots) :
                         ( /\ st.dots[p].alive
                           /\ st.dots[p].dot_type = "Predator"
                           /\ st.dots[p].position # st.dots[j].position
                           /\ FLt(distance_to(st.dots[j], st.dots[p]),
                                  pre.config.interaction_radius) )
                         => FGt(VDot(VSub(tr[k + 1].forces[p], st.forces[p]),
                                     Toward(st, j, p)), 0)

\* C19: for every visited pair of a live Repulsor r and another live particle
\* o in range and not overlapping, the force the pair adds to o points away
\* from r, whichever of the two has the lower index.  (The lower-index
\* particle is taken among the types that add no force of their own to it.)
C19_RepulsorPushesAway ==
    Ticked =>
        LET tr == PreTrace
        IN  \A k \in 1..Len(PrePairs) :
                LET st == tr[k]
                    i == PrePairs[k][1]
                    j == PrePairs[k][2]
                IN  \A r \in {i, j} :
                        LET o == IF r = i THEN j ELSE i
                        IN  ( /\ InRange(st, i, j)
                              /\ ~Overlapping(st, i, j)
                              /\ st.dots[r].dot_type = "Repulsor"
                              /\ st.dots[o].dot_type # "Repulsor"
                              /\ st.dots[i].dot_type \notin SelfForceTypes )
                            => FGt(VDot(VSub(tr[k + 1].forces[o], st.forces[o]),
                                        Toward(st, r, o)), 0)

C21_EatenAtMostOnce ==
    Ticked =>
        LET tr == PreTrace
            marked == tr[Len(tr)].to_remove
        IN  /\ \A a, b \in 1..Len(marked) : a # b => marked[a] # marked[b]
            /\ \A k \in 1..Len(PrePairs) :
                 Len(tr[k + 1].to_remove) > Len(tr[k].to_remove) =>
                     \A e \in {PrePairs[k][1], PrePairs[k][2]} :
                         e # tr[k + 1].to_remove[Len(tr[k + 1].to_remove)]
                           => e \notin Range(tr[k].to_remove)

\* the step drops particles from the population: a tick that compacts, or a
\* cleared or reseeded population
Removes ==
    \/ frame_count' # frame_count /\ frame_count' % 60 = 0
    \/ \E i \in 1..Len(dots) : i > Len(dots') \/ dots'[i].dot_type # dots[i].dot_type

\* C22: no step sets a particle's alive flag from false back to true, and as
\* long as a dead particle is in the population none of its fields changes.
C22_DeadStaysDeadAndFrozen ==
    [][ Removes \/ \A i \in 1..Len(dots) : ~dots[i].alive => dots'[i] = dots[i] ]_vars

\* a tick that started with a dead Predator in range of a protected Protector,
\* whose scan addresses a force to it, and ended with the Predator as it was
C22_Witness ==
    /\ Ticked
    /\ Len(dots) = Len(pre.dots)
    /\ \E p \in 1..Len(pre.dots) :
          /\ ~pre.dots[p].alive
          /\ pre.dots[p].dot_type = "Predator"
          /\ PreSweep.forces[p] # vec2(0, 0)
          /\ dots[p] = pre.dots[p]

====
